---- MODULE Spec2Model ----
(***************************************************************************)
(* GitHubPRManager (src/github_pr_manager.py): a blocking client of the    *)
(* GitHub pull-request REST API.  The state is the constructed client, the *)
(* public operation in progress with its arguments, the position inside    *)
(* that operation, the requests it has sent so far with the responses it   *)
(* got (net), and the value it returned or the exception it raised.        *)
(* One step is taken per blocking network round trip; a finished call      *)
(* rests at "done" until the caller takes its outcome.                     *)
(***************************************************************************)
EXTENDS Integers, Sequences, FiniteSets, TLC

VARIABLES client, op, pc, net, pr_data, result

vars == <<client, op, pc, net, pr_data, result>>

(* ------------------------------ bounds --------------------------------- *)
MaxTokLen == 3
MaxPrNumber == 2

(* ------------------------- Optional[...] values ------------------------ *)
None == <<>>
Some(x) == <<x>>

\* `if body:` -- None and "" are both falsy
TruthyStr(o) == o # None /\ o[1] # ""
\* `if reviewers:` -- None and [] are both falsy
TruthyList(o) == o # None /\ o[1] # <<>>

(* --------------------------- token handling ---------------------------- *)
Whitespace == {" ", "\n"}
TokenChars == {" ", "\n", "\"", "'", "x"}
GithubPatPrefix == <<"g", "i", "t", "h", "u", "b", "_", "p", "a", "t", "_">>

RECURSIVE LStrip(_)
LStrip(s) == IF s # <<>> /\ Head(s) \in Whitespace THEN LStrip(Tail(s)) ELSE s

RECURSIVE RStrip(_)
RStrip(s) ==
    IF s # <<>> /\ s[Len(s)] \in Whitespace
    THEN RStrip(SubSeq(s, 1, Len(s) - 1))
    ELSE s

\* str.strip()
Strip(s) == RStrip(LStrip(s))

\* str.startswith(p)
StartsWith(s, p) == Len(s) >= Len(p) /\ SubSeq(s, 1, Len(p)) = p

\* c in s
Contains(s, c) == \E i \in 1..Len(s) : s[i] = c

\* mutant: only the double quote is rejected
TokenInvalidDoubleQuoteOnly(tok) == Contains(tok, "\"")

\* '"' in self.token or "'" in self.token
TokenInvalid(tok) == Contains(tok, "\"") \/ Contains(tok, "'")

\* not self.token.startswith('github_pat_')
TokenWarns(tok) == ~StartsWith(tok, GithubPatPrefix)

Headers(tok) ==
    [Authorization |-> <<"Bearer", tok>>,
     Accept |-> "application/vnd.github+json",
     XGitHubApiVersion |-> "2022-11-28",
     ContentType |-> "application/json"]

NoClient ==
    [state |-> "none", token_arg |-> <<>>, token |-> <<>>, owner |-> "",
     repo |-> "", base_url |-> "", warned |-> FALSE, headers |-> None,
     error |-> None]

\* GitHubPRManager.__init__
NewClient(token, owner, repo, base_url) ==
    LET tok == Strip(token) IN
    [state |-> IF TokenInvalid(tok) THEN "error" ELSE "ok",
     token_arg |-> token,
     token |-> tok,
     owner |-> owner,
     repo |-> repo,
     base_url |-> base_url,
     warned |-> TokenWarns(tok),
     headers |-> IF TokenInvalid(tok) THEN None ELSE Some(Headers(tok)),
     error |-> IF TokenInvalid(tok) THEN <<"ValueError", "token">> ELSE None]

(* ------------------------------ inputs --------------------------------- *)
SeqsUpTo(S, n) == UNION {[1..k -> S] : k \in 0..n}

TokenInputs ==
    {l \o p \o c : l \in {<<>>, <<" ">>}, p \in {<<>>, GithubPatPrefix},
                   c \in SeqsUpTo(TokenChars, MaxTokLen)}

Owners == {"some-owner", "acme"}
Repos == {"some-repo", "tools"}
BaseUrls == {"https://api.github.com", "https://ghe.local/api/v3"}
ValidToken == GithubPatPrefix \o <<"x">>

BranchNames == {"feature", "main"}
Titles == {"Add X", "Fix Y"}
Bodies == {None, Some(""), Some("text")}
ReviewerLists == {None, Some(<<>>), Some(<<"alice">>)}
TeamLists == {None, Some(<<>>), Some(<<"core">>)}
PrNumbers == 1..MaxPrNumber

(* ------------------------------ network -------------------------------- *)
ConnectionError ==
    [kind |-> "exception", status |-> 0, json |-> None]
Response(status, json) ==
    [kind |-> "response", status |-> status, json |-> json]

PrJson(n, title) == [number |-> n, title |-> title, html_url |-> "html_url"]
ErrorJson == [message |-> "error"]

BranchResponses ==
    {Response(s, None) : s \in {200, 404, 500}} \cup {ConnectionError}
PullsResponses(title) ==
    {Response(201, Some(PrJson(n, title))) : n \in PrNumbers}
        \cup {Response(201, Some(ErrorJson)),
              Response(422, Some(ErrorJson)), ConnectionError}
ReviewerResponses(n) ==
    {Response(201, Some(PrJson(n, "t"))), Response(422, Some(ErrorJson)),
     Response(404, Some(ErrorJson)), ConnectionError}
PrResponses(n) ==
    {Response(200, Some(PrJson(n, "t"))), Response(404, Some(ErrorJson)),
     ConnectionError}

\* f"{self.base_url}/repos/{self.owner}/{self.repo}/..."
Url(path) == <<client.base_url, "repos", client.owner, client.repo>> \o path

\* requests.get / requests.post: the request sent and what came back
Request(method, url, data, resp) ==
    [method |-> method, url |-> url, headers |-> client.headers[1],
     data |-> data, resp |-> resp]

\* response.raise_for_status() raises, or the call itself raised
RequestFails(resp) ==
    resp.kind = "exception" \/ (resp.status >= 400 /\ resp.status < 600)

RequestError(resp) ==
    IF resp.kind = "exception" THEN <<"ConnectionError">> ELSE <<"HTTPError">>

(* ------------------------------ results -------------------------------- *)
NoResult == [status |-> "none", value |-> <<>>, error |-> <<>>]
Returned(v) == [status |-> "returned", value |-> <<v>>, error |-> <<>>]
Raised(e) == [status |-> "raised", value |-> <<>>, error |-> e]

(* ----------------------- the call in progress -------------------------- *)
OpNames ==
    {"check_branch_exists", "validate_branches", "create_pull_request",
     "add_reviewers", "create_pr_with_reviewers", "get_pull_request"}

NoOp ==
    [name |-> "none", branch_name |-> "", title |-> "", head |-> "",
     base |-> "", body |-> None, draft |-> FALSE, pr_number |-> 0,
     reviewers |-> None, team_reviewers |-> None]

\* the calls a caller can make, with their arguments
Calls ==
    {[NoOp EXCEPT !.name = "check_branch_exists", !.branch_name = b] :
        b \in BranchNames}
    \cup {[NoOp EXCEPT !.name = "validate_branches", !.head = h, !.base = b] :
        h \in BranchNames, b \in BranchNames}
    \cup {[NoOp EXCEPT !.name = n, !.title = t, !.head = h, !.base = b,
                       !.body = bd, !.draft = d] :
        n \in {"create_pull_request"}, t \in Titles, h \in BranchNames,
        b \in BranchNames, bd \in Bodies, d \in BOOLEAN}
    \cup {[NoOp EXCEPT !.name = "add_reviewers", !.pr_number = n,
                       !.reviewers = r, !.team_reviewers = t] :
        n \in PrNumbers, r \in ReviewerLists, t \in TeamLists}
    \cup {[NoOp EXCEPT !.name = "create_pr_with_reviewers", !.title = t,
                       !.head = h, !.base = b, !.body = bd, !.draft = d,
                       !.reviewers = r, !.team_reviewers = tr] :
        t \in Titles, h \in BranchNames, b \in BranchNames, bd \in Bodies,
        d \in BOOLEAN, r \in ReviewerLists, tr \in TeamLists}
    \cup {[NoOp EXCEPT !.name = "get_pull_request", !.pr_number = n] :
        n \in PrNumbers}

\* the first statement of each public method
Entry(name) ==
    CASE name = "check_branch_exists" -> "check_branch_exists"
      [] name = "validate_branches" -> "validate_branches_head"
      [] name = "create_pull_request" -> "validate_branches_head"
      [] name = "create_pr_with_reviewers" -> "validate_branches_head"
      [] name = "add_reviewers" -> "add_reviewers"
      [] name = "get_pull_request" -> "get_pull_request"

\* a caller invokes a public method of the constructed client
Call ==
    /\ pc = "idle"
    /\ client.state = "ok"
    /\ \E c \in Calls :
         /\ op' = c
         /\ pc' = Entry(c.name)
    /\ net' = <<>>
    /\ pr_data' = None
    /\ result' = NoResult
    /\ UNCHANGED client

\* the caller has the value or the exception; the client is ready again
Return ==
    /\ pc = "done"
    /\ pc' = "idle"
    /\ op' = NoOp
    /\ net' = <<>>
    /\ pr_data' = None
    /\ result' = NoResult
    /\ UNCHANGED client

\* a caller constructs a client
Construct ==
    /\ pc = "idle"
    /\ client.state = "none"
    /\ \E token \in TokenInputs, owner \in Owners, repo \in Repos,
          base_url \in BaseUrls :
         client' = NewClient(token, owner, repo, base_url)
    /\ op' = NoOp
    /\ net' = <<>>
    /\ pr_data' = None
    /\ result' = NoResult
    /\ UNCHANGED pc

(* ------------------------ check_branch_exists -------------------------- *)
BranchUrl(branch_name) == Url(<<"branches", branch_name>>)

\* mutant: any response at all counts as "found"
BranchFoundAnyResponse(resp) == resp.kind = "response"

\* response.status_code == 200; except RequestException: False
BranchFound(resp) == resp.kind = "response" /\ resp.status = 200

\* mutant: a failed lookup is tried a second time
check_branch_exists_retry ==
    /\ pc = "check_branch_exists"
    /\ \E resp \in BranchResponses :
         /\ net' = Append(net, Request("GET", BranchUrl(op.branch_name),
                                       None, resp))
         /\ IF BranchFound(resp) \/ Len(net) >= 1
            THEN result' = Returned(BranchFound(resp)) /\ pc' = "done"
            ELSE UNCHANGED <<result, pc>>
    /\ UNCHANGED <<client, op, pr_data>>

check_branch_exists ==
    /\ pc = "check_branch_exists"
    /\ \E resp \in BranchResponses :
         /\ net' = Append(net, Request("GET", BranchUrl(op.branch_name),
                                       None, resp))
         /\ result' = Returned(BranchFound(resp))
    /\ pc' = "done"
    /\ UNCHANGED <<client, op, pr_data>>

(* -------------------------- validate_branches -------------------------- *)
BranchError(which, name) == <<"ValueError", which, name>>

\* mutant: the target branch is looked up first
validate_branches_head_base_first ==
    /\ pc = "validate_branches_head"
    /\ \E resp \in BranchResponses :
         /\ net' = Append(net, Request("GET", BranchUrl(op.base), None, resp))
         /\ IF BranchFound(resp)
            THEN pc' = "validate_branches_base" /\ UNCHANGED result
            ELSE pc' = "done" /\ result' = Raised(BranchError("Target", op.base))
    /\ UNCHANGED <<client, op, pr_data>>

\* if not self.check_branch_exists(head): raise ValueError(Source branch)
validate_branches_head ==
    /\ pc = "validate_branches_head"
    /\ \E resp \in BranchResponses :
         /\ net' = Append(net, Request("GET", BranchUrl(op.head), None, resp))
         /\ IF BranchFound(resp)
            THEN pc' = "validate_branches_base" /\ UNCHANGED result
            ELSE pc' = "done" /\ result' = Raised(BranchError("Source", op.head))
    /\ UNCHANGED <<client, op, pr_data>>

\* where validate_branches returns to
AfterValidate ==
    IF op.name = "validate_branches"
    THEN pc' = "done" /\ result' = Returned(None)
    ELSE pc' = "create_pull_request" /\ UNCHANGED result

\* mutant: the result of the target-branch lookup is ignored
validate_branches_base_unchecked ==
    /\ pc = "validate_branches_base"
    /\ \E resp \in BranchResponses :
         net' = Append(net, Request("GET", BranchUrl(op.base), None, resp))
    /\ AfterValidate
    /\ UNCHANGED <<client, op, pr_data>>

\* if not self.check_branch_exists(base): raise ValueError(Target branch)
validate_branches_base ==
    /\ pc = "validate_branches_base"
    /\ \E resp \in BranchResponses :
         /\ net' = Append(net, Request("GET", BranchUrl(op.base), None, resp))
         /\ IF BranchFound(resp)
            THEN AfterValidate
            ELSE pc' = "done" /\ result' = Raised(BranchError("Target", op.base))
    /\ UNCHANGED <<client, op, pr_data>>

(* ------------------------- create_pull_request ------------------------- *)
PullsUrl == Url(<<"pulls">>)

\* mutant: `if body is not None:` -- an empty body is sent along
PayloadBodyNotNone(o) ==
    IF o.body # None
    THEN [title |-> o.title, head |-> o.head, base |-> o.base,
          draft |-> o.draft, body |-> o.body[1]]
    ELSE [title |-> o.title, head |-> o.head, base |-> o.base,
          draft |-> o.draft]

\* data = {title, head, base, draft}; if body: data["body"] = body
Payload(o) ==
    IF TruthyStr(o.body)
    THEN [title |-> o.title, head |-> o.head, base |-> o.base,
          draft |-> o.draft, body |-> o.body[1]]
    ELSE [title |-> o.title, head |-> o.head, base |-> o.base,
          draft |-> o.draft]

\* pr_data['title'], pr_data['html_url'], pr_data['number'] are all read
HasPrKeys(json) == {"title", "html_url", "number"} \subseteq DOMAIN json

\* what create_pull_request returns or raises once the POST has completed
CreateOutcome(resp) ==
    IF RequestFails(resp) THEN Raised(RequestError(resp))
    ELSE IF ~HasPrKeys(resp.json[1]) THEN Raised(<<"KeyError">>)
    ELSE Returned(resp.json[1])

\* if reviewers or team_reviewers:
ReviewersGiven(o) == TruthyList(o.reviewers) \/ TruthyList(o.team_reviewers)

\* mutant: a failed creation is swallowed and the reviewers are still asked for
AfterCreateIgnoreFailure(r) ==
    IF op.name = "create_pr_with_reviewers"
    THEN /\ pr_data' = Some(IF r.status = "returned" THEN r.value[1]
                            ELSE PrJson(1, op.title))
         /\ IF ReviewersGiven(op)
            THEN pc' = "add_reviewers" /\ UNCHANGED result
            ELSE pc' = "done" /\ result' = r
    ELSE pc' = "done" /\ result' = r /\ UNCHANGED pr_data

\* where create_pull_request returns to: its caller, or the rest of
\* create_pr_with_reviewers (an exception passes through it uncaught)
AfterCreate(r) ==
    IF op.name = "create_pr_with_reviewers" /\ r.status = "returned"
    THEN /\ pr_data' = Some(r.value[1])
         /\ IF ReviewersGiven(op)
            THEN pc' = "add_reviewers" /\ UNCHANGED result
            ELSE pc' = "done" /\ result' = r
    ELSE pc' = "done" /\ result' = r /\ UNCHANGED pr_data

\* requests.post(url, headers=self.headers, data=json.dumps(data))
create_pull_request ==
    /\ pc = "create_pull_request"
    /\ \E resp \in PullsResponses(op.title) :
         /\ net' = Append(net, Request("POST", PullsUrl, Some(Payload(op)), resp))
         /\ AfterCreate(CreateOutcome(resp))
    /\ UNCHANGED <<client, op>>

(* ---------------------------- add_reviewers ---------------------------- *)
\* pr_number: the caller's, or pr_data['number'] in create_pr_with_reviewers
PrNumberArg ==
    IF op.name = "create_pr_with_reviewers" THEN pr_data[1].number
    ELSE op.pr_number

ReviewersUrl(n) == Url(<<"pulls", n, "requested_reviewers">>)

\* mutant: the emptiness check is missing
ReviewersMissingNever(reviewers, team_reviewers) == FALSE

\* not reviewers and not team_reviewers
ReviewersMissing(reviewers, team_reviewers) ==
    ~TruthyList(reviewers) /\ ~TruthyList(team_reviewers)

\* data = {}; only the populated lists are added
ReviewerData(reviewers, team_reviewers) ==
    CASE TruthyList(reviewers) /\ TruthyList(team_reviewers) ->
            [reviewers |-> reviewers[1], team_reviewers |-> team_reviewers[1]]
      [] TruthyList(reviewers) /\ ~TruthyList(team_reviewers) ->
            [reviewers |-> reviewers[1]]
      [] ~TruthyList(reviewers) /\ TruthyList(team_reviewers) ->
            [team_reviewers |-> team_reviewers[1]]
      [] OTHER -> <<>>

\* mutant: the flag is set before the outcome of add_reviewers is known
AfterAddReviewersFlagAlwaysTrue(r) ==
    /\ pc' = "done"
    /\ result' = IF op.name = "create_pr_with_reviewers"
                 THEN Returned(("reviewers_added" :> TRUE) @@ pr_data[1])
                 ELSE r

\* mutant: the except clause is missing
AfterAddReviewersUncaught(r) ==
    /\ pc' = "done"
    /\ result' = IF op.name = "create_pr_with_reviewers" /\ r.status = "returned"
                 THEN Returned(("reviewers_added" :> TRUE) @@ pr_data[1])
                 ELSE r

\* where add_reviewers returns to: its caller, or the try/except of
\* create_pr_with_reviewers, which sets pr_data['reviewers_added']
AfterAddReviewers(r) ==
    /\ pc' = "done"
    /\ result' = IF op.name = "create_pr_with_reviewers"
                 THEN Returned(("reviewers_added" :> (r.status = "returned"))
                               @@ pr_data[1])
                 ELSE r

\* if not reviewers and not team_reviewers: raise ValueError
add_reviewers ==
    /\ pc = "add_reviewers"
    /\ IF ReviewersMissing(op.reviewers, op.team_reviewers)
       THEN AfterAddReviewers(Raised(<<"ValueError", "reviewers">>))
       ELSE pc' = "add_reviewers_post" /\ UNCHANGED result
    /\ UNCHANGED <<client, op, net, pr_data>>

\* requests.post(url, headers=self.headers, data=json.dumps(data))
add_reviewers_post ==
    /\ pc = "add_reviewers_post"
    /\ \E resp \in ReviewerResponses(PrNumberArg) :
         /\ net' = Append(net, Request("POST", ReviewersUrl(PrNumberArg),
                      Some(ReviewerData(op.reviewers, op.team_reviewers)), resp))
         /\ AfterAddReviewers(IF RequestFails(resp)
                              THEN Raised(RequestError(resp))
                              ELSE Returned(resp.json[1]))
    /\ UNCHANGED <<client, op, pr_data>>

(* --------------------------- get_pull_request -------------------------- *)
PrUrl(n) == Url(<<"pulls", n>>)

get_pull_request ==
    /\ pc = "get_pull_request"
    /\ \E resp \in PrResponses(op.pr_number) :
         /\ net' = Append(net, Request("GET", PrUrl(op.pr_number), None, resp))
         /\ result' = IF RequestFails(resp) THEN Raised(RequestError(resp))
                      ELSE Returned(resp.json[1])
    /\ pc' = "done"
    /\ UNCHANGED <<client, op, pr_data>>

(* --------------------------- specifications ---------------------------- *)
\* the client has been constructed with a well-formed token
Init ==
    /\ client \in {NewClient(ValidToken, o, r, u) :
                      o \in Owners, r \in Repos, u \in BaseUrls}
    /\ op = NoOp
    /\ pc = "idle"
    /\ net = <<>>
    /\ pr_data = None
    /\ result = NoResult

Next ==
    \/ Call
    \/ check_branch_exists
    \/ validate_branches_head
    \/ validate_branches_base
    \/ create_pull_request
    \/ add_reviewers
    \/ add_reviewers_post
    \/ get_pull_request
    \/ Return

Spec == Init /\ [][Next]_vars

\* construction alone: no client yet, any token
InitCtor ==
    /\ client = NoClient
    /\ op = NoOp
    /\ pc = "idle"
    /\ net = <<>>
    /\ pr_data = None
    /\ result = NoResult

NextCtor == Construct

SpecCtor == InitCtor /\ [][NextCtor]_vars

(* ------------------- what an observer of net can see ------------------- *)
IsBranchGet(req, name) ==
    /\ req.method = "GET"
    /\ Len(req.url) = 6
    /\ req.url[5] = "branches"
    /\ req.url[6] = name

IsAnyBranchGet(req) == \E b \in BranchNames : IsBranchGet(req, b)

IsPullsPost(req) ==
    req.method = "POST" /\ Len(req.url) = 5 /\ req.url[5] = "pulls"

IsReviewersPost(req) ==
    req.method = "POST" /\ Len(req.url) = 7 /\ req.url[7] = "requested_reviewers"

Status200(req) == req.resp.kind = "response" /\ req.resp.status = 200

Status2xx(req) ==
    req.resp.kind = "response" /\ req.resp.status >= 200 /\ req.resp.status < 300

NoPullsPost == \A i \in 1..Len(net) : ~IsPullsPost(net[i])
NoReviewersPost == \A i \in 1..Len(net) : ~IsReviewersPost(net[i])

Creating == op.name \in {"create_pull_request", "create_pr_with_reviewers"}
Validating == Creating \/ op.name = "validate_branches"
BothListsEmpty ==
    /\ op.reviewers \in {None, Some(<<>>)}
    /\ op.team_reviewers \in {None, Some(<<>>)}

(* ------------------------------- claims -------------------------------- *)

\* C1: in create_pull_request the POST to the pulls endpoint is only ever the
\* third request, after the head lookup and then the base lookup have both
\* answered 200; once any branch lookup has answered otherwise (404, another
\* status, transport failure) the operation has failed and no POST was sent.
C1_PostOnlyAfterBothBranchesFound ==
    Creating =>
        /\ \A i \in 1..Len(net) :
             IsPullsPost(net[i]) =>
                /\ i = 3
                /\ IsBranchGet(net[1], op.head) /\ Status200(net[1])
                /\ IsBranchGet(net[2], op.base) /\ Status200(net[2])
        /\ \A i \in 1..Len(net) :
             (IsAnyBranchGet(net[i]) /\ ~Status200(net[i])) =>
                /\ pc = "done"
                /\ result.status = "raised"
                /\ NoPullsPost

C1_Witness ==
    /\ Creating
    /\ pc = "done"
    /\ Len(net) = 2
    /\ Status200(net[1])
    /\ net[2].resp = ConnectionError
    /\ result.status = "raised"

\* C2: in create_pr_with_reviewers, when creation succeeded and the
\* requested_reviewers request then failed (transport failure or non-2xx),
\* the operation returns, not raises, the PR data that creation produced,
\* with reviewers_added = FALSE.
C2_ReviewerFailureIsAnnotation ==
    (/\ op.name = "create_pr_with_reviewers"
     /\ pc = "done"
     /\ \E i \in 1..Len(net) : IsReviewersPost(net[i]) /\ ~Status2xx(net[i]))
    =>
        /\ result.status = "returned"
        /\ result.value[1].reviewers_added = FALSE
        /\ Len(net) = 4 /\ IsPullsPost(net[3]) /\ Status2xx(net[3])
        /\ \A k \in DOMAIN net[3].resp.json[1] :
             result.value[1][k] = net[3].resp.json[1][k]

C2_Witness ==
    /\ op.name = "create_pr_with_reviewers"
    /\ pc = "done"
    /\ Len(net) = 4
    /\ net[4].resp = ConnectionError
    /\ result.status = "returned"
    /\ result.value[1].reviewers_added = FALSE

\* C3: in create_pr_with_reviewers a requested_reviewers request is only ever
\* sent after a creation POST that succeeded; when creation failed (a branch
\* lookup not 200, the POST failing, or its answer lacking the PR fields) the
\* operation has raised the error of that failure and sent no reviewer request.
C3_NoReviewersAfterFailedCreate ==
    op.name = "create_pr_with_reviewers" =>
        /\ \A i \in 1..Len(net) :
             IsReviewersPost(net[i]) =>
                /\ i = 4
                /\ IsPullsPost(net[3]) /\ Status2xx(net[3])
                /\ HasPrKeys(net[3].resp.json[1])
        /\ (Len(net) >= 1 /\ ~Status200(net[1])) =>
                /\ pc = "done" /\ NoReviewersPost
                /\ result = Raised(<<"ValueError", "Source", op.head>>)
        /\ (Len(net) >= 2 /\ ~Status200(net[2])) =>
                /\ pc = "done" /\ NoReviewersPost
                /\ result = Raised(<<"ValueError", "Target", op.base>>)
        /\ (Len(net) >= 3 /\ net[3].resp.kind = "exception") =>
                /\ pc = "done" /\ NoReviewersPost
                /\ result = Raised(<<"ConnectionError">>)
        /\ (Len(net) >= 3 /\ net[3].resp.kind = "response"
                /\ ~Status2xx(net[3])) =>
                /\ pc = "done" /\ NoReviewersPost
                /\ result = Raised(<<"HTTPError">>)
        /\ (Len(net) >= 3 /\ Status2xx(net[3])
                /\ ~HasPrKeys(net[3].resp.json[1])) =>
                /\ pc = "done" /\ NoReviewersPost
                /\ result = Raised(<<"KeyError">>)

C3_Witness ==
    /\ op.name = "create_pr_with_reviewers"
    /\ ~BothListsEmpty
    /\ pc = "done"
    /\ Len(net) = 3
    /\ IsPullsPost(net[3]) /\ ~Status2xx(net[3])
    /\ result.status = "raised"

\* C4: add_reviewers called with both lists empty or absent sends no request
\* at all and ends raising the ValueError of the emptiness check.
C4_EmptyReviewersFailBeforeNetwork ==
    (op.name = "add_reviewers" /\ BothListsEmpty) =>
        /\ net = <<>>
        /\ pc \in {"add_reviewers", "done"}
        /\ pc = "done" => result = Raised(<<"ValueError", "reviewers">>)

C4_Witness ==
    /\ op.name = "add_reviewers"
    /\ op.reviewers = Some(<<>>)
    /\ op.team_reviewers = Some(<<>>)
    /\ pc = "done"
    /\ result.status = "raised"
    /\ net = <<>>

\* C5: validate_branches looks up head first and base second; a head lookup
\* that is not 200 ends the validation there, naming the head (source)
\* branch, with no base lookup sent; the base (target) branch is the one
\* named exactly when head answered 200 and base did not.
C5_HeadCheckedFirstFailFast ==
    Validating =>
        /\ Len(net) >= 1 => IsBranchGet(net[1], op.head)
        /\ Len(net) >= 2 => IsBranchGet(net[2], op.base) /\ Status200(net[1])
        /\ (Len(net) >= 1 /\ ~Status200(net[1])) =>
                /\ Len(net) = 1
                /\ pc = "done"
                /\ result = Raised(<<"ValueError", "Source", op.head>>)
        /\ (result = Raised(<<"ValueError", "Target", op.base>>)) <=>
                (Len(net) = 2 /\ Status200(net[1]) /\ ~Status200(net[2]))

C5_Witness ==
    /\ op.name = "validate_branches"
    /\ op.head # op.base
    /\ pc = "done"
    /\ Len(net) = 1
    /\ net[1].resp.kind = "response" /\ net[1].resp.status = 404
    /\ result = Raised(<<"ValueError", "Source", op.head>>)

\* C6, as claimed: no public operation makes more than two round trips.
C6_AtMostTwoRoundTrips == Len(net) <= 2

\* C6, amended: check_branch_exists, add_reviewers and get_pull_request make
\* at most one round trip, validate_branches at most two, create_pull_request
\* at most three and create_pr_with_reviewers at most four.
C6_RoundTripsPerOperation ==
    Len(net) <=
        CASE op.name \in {"check_branch_exists", "add_reviewers",
                          "get_pull_request"} -> 1
          [] op.name = "validate_branches" -> 2
          [] op.name = "create_pull_request" -> 3
          [] op.name = "create_pr_with_reviewers" -> 4
          [] OTHER -> 0

C6_Witness ==
    /\ op.name = "create_pr_with_reviewers"
    /\ pc = "done"
    /\ Len(net) = 4

\* C7: check_branch_exists always returns, never raises, after one GET, and
\* returns TRUE exactly when that GET answered with status 200 (so a 404 and
\* a transport failure both give FALSE).
C7_BranchExistsIffStatus200 ==
    (op.name = "check_branch_exists" /\ pc = "done") =>
        /\ Len(net) = 1
        /\ IsBranchGet(net[1], op.branch_name)
        /\ result.status = "returned"
        /\ result.value[1] = Status200(net[1])

C7_Witness ==
    /\ op.name = "check_branch_exists"
    /\ pc = "done"
    /\ net[1].resp = ConnectionError
    /\ result = Returned(FALSE)

\* C8: construction fails with the token ValueError exactly when the trimmed
\* token holds a double quote or an apostrophe, whatever owner, repo and base
\* URL are and whether or not the token has the github_pat_ prefix; a missing
\* prefix alone only sets the warning.
C8_QuoteInTokenAlwaysRejected ==
    client.state # "none" =>
        LET t == Strip(client.token_arg)
            quoted == \E i \in 1..Len(t) : t[i] \in {"\"", "'"}
        IN /\ quoted => client.state = "error"
                        /\ client.error = <<"ValueError", "token">>
           /\ ~quoted => client.state = "ok"
                         /\ client.token = t
                         /\ (client.warned <=> ~StartsWith(t, GithubPatPrefix))

C8_Witness ==
    /\ client.state = "error"
    /\ StartsWith(client.token, GithubPatPrefix)
    /\ client.token_arg # client.token
    /\ Contains(client.token, "'")
    /\ ~Contains(client.token, "\"")

\* C9, as claimed: the create payload has the caller's title, head, base and
\* draft, has no body field when the request has no body (body is None), and
\* carries the request's body whenever the request has one.
C9_BodyFieldIffBodyGiven ==
    Creating =>
        \A i \in 1..Len(net) :
            IsPullsPost(net[i]) =>
                LET data == net[i].data[1] IN
                /\ data.title = op.title /\ data.head = op.head
                /\ data.base = op.base /\ data.draft = op.draft
                /\ op.body = None => "body" \notin DOMAIN data
                /\ op.body # None =>
                      "body" \in DOMAIN data /\ data.body = op.body[1]

\* C9, amended: the create payload has the caller's title, head, base and
\* draft and no other field but body; it has no body field when the request's
\* body is absent or the empty string (so never a body field holding ""), and
\* carries the request's body when that is a non-empty string.
C9_BodyFieldIffBodyNonEmpty ==
    Creating =>
        \A i \in 1..Len(net) :
            IsPullsPost(net[i]) =>
                LET data == net[i].data[1] IN
                /\ data.title = op.title /\ data.head = op.head
                /\ data.base = op.base /\ data.draft = op.draft
                /\ DOMAIN data \subseteq {"title", "head", "base", "draft", "body"}
                /\ op.body \in {None, Some("")} => "body" \notin DOMAIN data
                /\ op.body \notin {None, Some("")} =>
                      "body" \in DOMAIN data /\ data.body = op.body[1]
                /\ "body" \in DOMAIN data => data.body # ""

C9_Witness ==
    /\ op.name = "create_pull_request"
    /\ op.title = "Add X" /\ op.head = "feature" /\ op.base = "main"
    /\ op.body = None
    /\ Len(net) = 3
    /\ IsPullsPost(net[3])
    /\ DOMAIN net[3].data[1] = {"title", "head", "base", "draft"}

\* C10: when create_pr_with_reviewers has returned, the result's
\* reviewers_added is TRUE exactly when a requested_reviewers request was
\* sent and succeeded; with both lists empty or absent no such request was
\* sent, the result has no reviewers_added field, and the operation never
\* ends in the emptiness ValueError of add_reviewers.
C10_FlagIffReviewersAttached ==
    (op.name = "create_pr_with_reviewers" /\ pc = "done") =>
        /\ result.status = "returned" =>
             LET v == result.value[1] IN
             /\ ("reviewers_added" \in DOMAIN v /\ v.reviewers_added = TRUE)
                  <=> (\E i \in 1..Len(net) :
                          IsReviewersPost(net[i]) /\ Status2xx(net[i]))
             /\ BothListsEmpty =>
                    NoReviewersPost /\ "reviewers_added" \notin DOMAIN v
        /\ BothListsEmpty =>
             /\ NoReviewersPost
             /\ result # Raised(<<"ValueError", "reviewers">>)
             /\ (Len(net) = 3 /\ Status2xx(net[3])
                    /\ HasPrKeys(net[3].resp.json[1]))
                  => result = Returned(net[3].resp.json[1])

C10_Witness ==
    /\ op.name = "create_pr_with_reviewers"
    /\ op.reviewers = Some(<<>>)
    /\ op.team_reviewers = None
    /\ pc = "done"
    /\ result.status = "returned"
    /\ "reviewers_added" \notin DOMAIN result.value[1]

====
